---------------------------- MODULE Spec2Model ----------------------------
(***************************************************************************)
(* A model of the tween crate: the numeric capability traits (TweenTime,   *)
(* TweenValue), the curves Linear / ElasticIn / ElasticOut / ElasticInOut  *)
(* and a closure tween, and the drivers that advance a curve over repeated *)
(* calls (Tweener, delta driver, Looper, Oscillator).                      *)
(*                                                                         *)
(* Values and times are the integer instances of the traits.  A percent    *)
(* is the quotient current_time / duration kept as the pair num / den, so  *)
(* that the comparisons the code makes on it (== 0.0, == 1.0, < 0.0) are   *)
(* exact and a zero duration shows as den = 0.  The scalars of the elastic *)
(* curves (pow and sin of a percent) are tabulated in millionths for every *)
(* percent that is a whole number of hundredths; on the durations and      *)
(* values used here the tabulated arithmetic returns the same integers as  *)
(* the f64 arithmetic of the source.                                       *)
(***************************************************************************)
EXTENDS Integers, Sequences, FiniteSets, TLC

(* ------------------------------ bounds -------------------------------- *)

\* the values a curve is built over (initial and final value)
Values == {0, 1, 100}

\* the non-zero durations a curve is built over
Durations == {1, 2, 4, 10}

\* the durations of the zero-duration study
ZeroDurations == {0, 4}

\* number of advance calls made on one driver
MaxCalls == 10

\* number of delta-style calls (move_by, Looper, Oscillator) on one driver
MaxMoves == 5

\* absolute times handed to move_to range over -1 .. MaxTime
MaxTime == 11

\* deltas handed to move_by range over -1 .. MaxDelta
MaxDelta == 3

(* --------------------------- numeric traits --------------------------- *)

\* one in the unit of the tabulated scalars
Micro == 1000 * 1000

\* an f64 -> integer `as` cast of a quotient: truncation toward zero
TruncDiv(a, b) == IF a >= 0 THEN a \div b ELSE -((-a) \div b)

\* percent with the division made on the integers, before the conversion
percent_intdiv(dur, current_time) == [num |-> TruncDiv(current_time, dur), den |-> 1]

\* TweenTime::percent: current_time as f64 / duration as f64
percent(dur, current_time) == [num |-> current_time, den |-> dur]

\* the f64 comparisons of a percent; x / 0 is NaN or an infinity, equal to no number
IsNaN(p) == p.den = 0 /\ p.num = 0
IsInfinite(p) == p.den = 0 /\ p.num # 0
IsZero(p) == p.den # 0 /\ p.num = 0
IsOne(p) == p.den # 0 /\ p.num = p.den
IsDefined(p) == p.den # 0

\* scale rounding down instead of toward zero
scale_floor(self, p) == IF p.den = 0 THEN 0 ELSE (self * p.num) \div p.den

\* TweenValue::scale: (self as f64 * scale) as Self; NaN casts to 0
scale(self, p) == IF p.den = 0 THEN 0 ELSE TruncDiv(self * p.num, p.den)

\* TweenValue::scale by a tabulated scalar (millionths)
scaleMicro(self, s) == TruncDiv(self * s, Micro)

\* the percent in hundredths, the index of the tabulated scalars
Key(p) == (100 * p.num) \div p.den

(* ------------------------- tabulated scalars -------------------------- *)

ElasticInPow ==
  << 1046, 1121, 1202, 1288, 1381, 1480, 1586, 1700, 1822,
     1953, 2093, 2243, 2404, 2577, 2762, 2960, 3172, 3400,
     3644, 3906, 4186, 4487, 4809, 5154, 5524, 5920, 6345,
     6801, 7289, 7812, 8373, 8974, 9618, 10308, 11048, 11841,
     12691, 13602, 14578, 15625, 16746, 17948, 19236, 20617, 22097,
     23683, 25382, 27204, 29157, 31250, 33492, 35896, 38473, 41234,
     44194, 47366, 50765, 54409, 58314, 62500, 66985, 71793, 76946,
     82469, 88388, 94732, 101531, 108818, 116629, 124999, 133971, 143587,
     153893, 164938, 176776, 189464, 203063, 217637, 233258, 250000, 267943,
     287174, 307786, 329876, 353553, 378929, 406126, 435275, 466516, 500000,
     535886, 574349, 615572, 659753, 707106, 757858, 812252, 870550, 933032 >>

ElasticInSin ==
  << -309016, -104528, 104528, 309016, 500000, 669130, 809016, 913545, 978147,
     1000000, 978147, 913545, 809016, 669130, 499999, 309016, 104528, -104528,
     -309016, -500000, -669130, -809016, -913545, -978147, -1000000, -978147, -913545,
     -809016, -669130, -499999, -309016, -104528, 104528, 309016, 500000, 669130,
     809016, 913545, 978147, 1000000, 978147, 913545, 809016, 669130, 500000,
     309016, 104528, -104528, -309016, -500000, -669130, -809016, -913545, -978147,
     -1000000, -978147, -913545, -809016, -669130, -499999, -309016, -104528, 104528,
     309016, 499999, 669130, 809016, 913545, 978147, 1000000, 978147, 913545,
     809016, 669130, 500000, 309016, 104528, -104528, -309016, -500000, -669130,
     -809016, -913545, -978147, -1000000, -978147, -913545, -809016, -669130, -499999,
     -309016, -104528, 104528, 309016, 499999, 669130, 809016, 913545, 978147 >>

ElasticOutScalar ==
  << -912643, -795287, -657125, -507106, -353553, -203875, -64344, 60035, 165598,
     249999, 312160, 352145, 371014, 370648, 353553, 322668, 281176, 232329,
     179289, 124999, 72080, 22749, -21225, -58547, -88388, -110365, -124502,
     -131173, -131044, -125000, -114080, -99410, -82140, -63388, -44194, -25484,
     -8043, 7504, 20699, 31250, 39020, 44018, 46376, 46331, 44194,
     40333, 35147, 29041, 22411, 15624, 9010, 2843, -2653, -7318,
     -11048, -13795, -15562, -16396, -16380, -15625, -14260, -12426, -10267,
     -7923, -5524, -3185, -1005, 938, 2587, 3906, 4877, 5502,
     5797, 5791, 5524, 5041, 4393, 3630, 2801, 1953, 1126,
     355, -331, -914, -1381, -1724, -1945, -2049, -2047, -1953,
     -1782, -1553, -1283, -990, -690, -398, -125, 117, 323 >>

ElasticInOutPow ==
  << 1121, 1288, 1480, 1700, 1953, 2243, 2577, 2960, 3400,
     3906, 4487, 5154, 5920, 6801, 7812, 8974, 10308, 11841,
     13602, 15625, 17948, 20617, 23683, 27204, 31250, 35896, 41234,
     47366, 54409, 62500, 71793, 82469, 94732, 108818, 124999, 143587,
     164938, 189464, 217637, 250000, 287174, 329876, 378929, 435275, 500000,
     574349, 659753, 757858, 870550, 1000000, 870550, 757858, 659753, 574349,
     499999, 435275, 378929, 329876, 287174, 250000, 217637, 189464, 164938,
     143587, 124999, 108818, 94732, 82469, 71793, 62500, 54409, 47366,
     41234, 35896, 31250, 27204, 23683, 20617, 17948, 15624, 13602,
     11841, 10308, 8974, 7812, 6801, 5920, 5154, 4487, 3906,
     3400, 2960, 2577, 2243, 1953, 1700, 1480, 1288, 1121 >>

ElasticInOutSin ==
  << 219185, 334565, 424024, 480630, 500000, 480630, 424024, 334565, 219185,
     86824, -52264, -187303, -307830, -404508, -469846, -498782, -489073, -441473,
     -359669, -249999, -120960, 17449, 154508, 279596, 383022, 456772, 495134,
     495134, 456772, 383022, 279596, 154508, 17449, -120960, -250000, -359669,
     -441473, -489073, -498782, -469846, -404508, -307830, -187303, -52264, 86824,
     219185, 334565, 424024, 480630, -500000, -480630, -424024, -334565, -219185,
     -86824, 52264, 187303, 307830, 404508, 469846, 498782, 489073, 441473,
     359669, 249999, 120960, -17449, -154508, -279596, -383022, -456772, -495134,
     -495134, -456772, -383022, -279596, -154508, -17449, 120960, 250000, 359669,
     441473, 489073, 498782, 469846, 404508, 307830, 187303, 52264, -86824,
     -219185, -334565, -424024, -480630, -500000, -480630, -424024, -334565, -219185 >>

(* ------------------------------- curves ------------------------------- *)

Curves == {"Linear", "Lambda", "ElasticIn", "ElasticOut", "ElasticInOut"}

WrapperKinds == {"Looper", "Oscillator"}

\* the value the closure of lambda_test returns for every percent
LambdaValue == 100

\* Linear::tween: value_delta.scale(percent)
Linear_tween(value_delta, p) == scale(value_delta, p)

\* the closure of lambda_test: |_vd, pct| 100
Lambda_tween(value_delta, p) == LambdaValue

\* the flag the closure of lambda_test captures: pct >= 0.5 (false of NaN)
Lambda_flag(p) == p.den # 0 /\ 2 * p.num >= p.den

\* ElasticIn::run with the initial value returned at both boundaries
ElasticIn_run_pasted(initial, final, dur, new_time) ==
  LET t == percent(dur, new_time)
  IN  IF IsZero(t) \/ IsOne(t) \/ IsNaN(t) THEN initial
      ELSE scaleMicro(scaleMicro(final - initial, ElasticInPow[Key(t)]),
                      ElasticInSin[Key(t)]) + initial

\* ElasticIn::run
ElasticIn_run(initial, final, dur, new_time) ==
  LET t == percent(dur, new_time)
      value_delta == final - initial
  IN  IF IsZero(t) THEN initial
      ELSE IF IsOne(t) THEN final
      ELSE IF IsNaN(t) THEN scale(scale(value_delta, t), t) + initial
      ELSE LET post_fix == scaleMicro(value_delta, ElasticInPow[Key(t)])
           IN  scaleMicro(post_fix, ElasticInSin[Key(t)]) + initial

\* ElasticOut::run
ElasticOut_run(initial, final, dur, new_time) ==
  LET t == percent(dur, new_time)
      value_delta == final - initial
  IN  IF IsZero(t) THEN initial
      ELSE IF IsOne(t) THEN final
      ELSE IF IsNaN(t) THEN scale(value_delta, t) + value_delta + initial
      ELSE scaleMicro(value_delta, ElasticOutScalar[Key(t)]) + value_delta + initial

\* ElasticInOut::run: the percent is doubled, the first half ends on the
\* initial value and the second half on the final value
ElasticInOut_run(initial, final, dur, new_time) ==
  LET t == percent(dur, new_time)
      value_delta == final - initial
  IN  IF IsZero(t) THEN initial
      ELSE IF IsOne(t) THEN final
      ELSE IF IsNaN(t) THEN scale(scale(value_delta, t), t) + final
      ELSE LET post_fix == scaleMicro(value_delta, ElasticInOutPow[Key(t)])
               half == scaleMicro(post_fix, ElasticInOutSin[Key(t)])
           IN  IF 2 * t.num < t.den THEN half + initial ELSE half + final

\* ElasticIn2::tween
ElasticIn2_tween(value_delta, p) ==
  IF IsZero(p) THEN 0
  ELSE IF IsOne(p) THEN value_delta
  ELSE IF IsNaN(p) THEN scale(scale(value_delta, p), p)
  ELSE scaleMicro(scaleMicro(value_delta, ElasticInPow[Key(p)]), ElasticInSin[Key(p)])

\* ElasticOut2::tween
ElasticOut2_tween(value_delta, p) ==
  IF IsZero(p) THEN 0
  ELSE IF IsOne(p) THEN value_delta
  ELSE IF IsNaN(p) THEN scale(value_delta, p) + value_delta
  ELSE scaleMicro(value_delta, ElasticOutScalar[Key(p)]) + value_delta

\* ElasticInOut2::tween
ElasticInOut2_tween(value_delta, p) ==
  IF IsZero(p) THEN 0
  ELSE IF IsOne(p) THEN value_delta
  ELSE IF IsNaN(p) THEN scale(scale(value_delta, p), p) + value_delta
  ELSE LET post_fix == scaleMicro(value_delta, ElasticInOutPow[Key(p)])
           half == scaleMicro(post_fix, ElasticInOutSin[Key(p)])
       IN  IF 2 * p.num < p.den THEN half ELSE half + value_delta

\* Tween::tween of each tween: the increment to add to the initial value
Tween_tween(tw, value_delta, p) ==
  CASE tw = "Linear" -> Linear_tween(value_delta, p)
    [] tw = "Lambda" -> Lambda_tween(value_delta, p)
    [] tw = "ElasticIn" -> ElasticIn2_tween(value_delta, p)
    [] tw = "ElasticOut" -> ElasticOut2_tween(value_delta, p)
    [] tw = "ElasticInOut" -> ElasticInOut2_tween(value_delta, p)

\* the evaluation of a curve at an absolute time: the value it returns
Tween_run(tw, initial, final, dur, new_time) ==
  CASE tw = "ElasticIn" -> ElasticIn_run(initial, final, dur, new_time)
    [] tw = "ElasticOut" -> ElasticOut_run(initial, final, dur, new_time)
    [] tw = "ElasticInOut" -> ElasticInOut_run(initial, final, dur, new_time)
    [] OTHER -> initial + Tween_tween(tw, final - initial, percent(dur, new_time))

\* is_finite with the closure tween declared unbounded
Tween_is_finite_closure(tw, ws) == ws = << >> /\ tw # "Lambda"

\* is_finite with Linear declared unbounded
Tween_is_finite_linear(tw, ws) == ws = << >> /\ tw # "Linear"

\* Tween::is_finite: the default is true; Looper and Oscillator are unbounded
Tween_is_finite(tw, ws) == ws = << >>

(* ------------------------------ drivers ------------------------------- *)

Min(a, b) == IF a <= b THEN a ELSE b
Max(a, b) == IF a >= b THEN a ELSE b

\* the clamp of an absolute time to [0, duration]
Clamp(t, dur) == Min(Max(t, 0), dur)

\* TweenTime is_complete: current >= duration
is_complete(current, dur) == current >= dur

\* the cursor the absolute driver stores: the clamped time for a finite tween
Tweener_cursor(tw, ws, dur, position) ==
  IF Tween_is_finite(tw, ws) THEN Clamp(position, dur) ELSE position

\* the value the absolute driver returns: a finite tween is clamped to its
\* bounds (the final value past the duration, the initial value before zero),
\* otherwise the initial value plus the tween's output
Tweener_value(tw, ws, initial, final, dur, position) ==
  IF Tween_is_finite(tw, ws) /\ position > dur THEN final
  ELSE IF Tween_is_finite(tw, ws) /\ position < 0 THEN initial
  ELSE initial + Tween_tween(tw, final - initial, percent(dur, position))

\* Tweener::is_finished: a finite tween whose cursor has reached the duration
Tweener_is_finished(tw, ws, dur, cur) ==
  Tween_is_finite(tw, ws) /\ is_complete(cur, dur)

\* the delta driver accumulating from a time clamped at zero
DeltaTweener_accumulate_clamped(acc, delta) == Max(acc, 0) + delta

\* the delta driver's accumulated absolute time after a delta
DeltaTweener_accumulate(acc, delta) == acc + delta

\* the looping wrapper wrapping only once the cursor is past the duration
Looper_wrap_late(c, dur) == IF c > dur THEN c % dur ELSE c

\* the looping wrapper's cursor: on completion the duration is taken off by
\* the time type's remainder
Looper_wrap(c, dur) == IF is_complete(c, dur) THEN c % dur ELSE c

\* the cycles an advance of the oscillating wrapper completes
Oscillator_cycles(c, dur) == IF is_complete(c, dur) THEN c \div dur ELSE 0

\* the oscillating wrapper flipping once per advance that completes a cycle
Oscillator_direction_once(rise, n) == IF n > 0 THEN ~rise ELSE rise

\* the oscillating wrapper's direction after completing n cycles
Oscillator_direction(rise, n) == IF n % 2 = 1 THEN ~rise ELSE rise

\* the time the oscillating wrapper evaluates the curve at: the time axis
\* is reversed on a falling cycle
Oscillator_time(rise, c, dur) == IF rise THEN c ELSE dur - c

\* Looper::new: the wrapped tween must be finite
Looper_new(tw, ws) ==
  IF Tween_is_finite(tw, ws)
  THEN [panic |-> FALSE, ws |-> << "Looper" >> \o ws]
  ELSE [panic |-> TRUE, ws |-> ws]

\* Oscillator::new: the wrapped tween must be finite
Oscillator_new(tw, ws) ==
  IF Tween_is_finite(tw, ws)
  THEN [panic |-> FALSE, ws |-> << "Oscillator" >> \o ws]
  ELSE [panic |-> TRUE, ws |-> ws]

\* into_loop building the wrapper without Looper::new
into_loop_unchecked(tw, ws) == [panic |-> FALSE, ws |-> << "Looper" >> \o ws]

\* Tween::into_loop
into_loop(tw, ws) == Looper_new(tw, ws)

\* Tween::into_oscillator
into_oscillator(tw, ws) == Oscillator_new(tw, ws)

(* ------------------------------- state -------------------------------- *)

VARIABLES
  tween,          \* the curve
  wrappers,       \* the wrappers around it, outermost first
  driver,         \* "Curve" (evaluated directly or wrapped), "Tweener", "DeltaTweener"
  initial_value,
  final_value,
  duration,
  cursor,         \* the driver's progression cursor
  accumulated,    \* the delta driver's accumulated absolute time
  rising,         \* the oscillating wrapper's direction flag
  pct_50_or_over, \* the flag captured by the closure tween
  panicked,       \* a call has panicked
  ret,            \* the value the last call returned
  inc,            \* the increment Tween::tween returned in the last run
  pct,            \* the percent the last call computed
  op,             \* the last operation
  arg,            \* the absolute time the last call moved to
  nCalls,         \* the number of run / advance calls made
  elapsed,        \* the sum of the deltas handed to the driver
  firstRet,       \* the value the first advance of a wrapper returned
  unitSteps,      \* time has advanced by exactly one unit in every call
  wasComplete     \* the cursor had reached the duration before the last call

vars == << tween, wrappers, driver, initial_value, final_value, duration, cursor,
           accumulated, rising, pct_50_or_over, panicked, ret, inc, pct, op, arg,
           nCalls, elapsed, firstRet, unitSteps, wasComplete >>

config == << tween, driver, initial_value, final_value, duration >>

value_delta == final_value - initial_value

is_finite == Tween_is_finite(tween, wrappers)


is_finished == Tweener_is_finished(tween, wrappers, duration, cursor)

InitOver(durs) ==
  /\ tween \in Curves
  /\ wrappers = << >>
  /\ driver \in {"Curve", "Tweener", "DeltaTweener"}
  /\ initial_value \in Values
  /\ final_value \in Values
  /\ duration \in durs
  /\ cursor = 0
  /\ accumulated = 0
  /\ rising = TRUE
  /\ pct_50_or_over = FALSE
  /\ panicked = FALSE
  /\ ret = initial_value
  /\ inc = 0
  /\ pct = percent(1, 0)
  /\ op = "new"
  /\ arg = 0
  /\ nCalls = 0
  /\ elapsed = 0
  /\ firstRet = initial_value
  /\ unitSteps = TRUE
  /\ wasComplete = FALSE

Init == InitOver(Durations)

InitZero == InitOver(ZeroDurations)

\* what every call records
Called(name, t, r, p, unit) ==
  /\ op' = name
  /\ arg' = t
  /\ ret' = r
  /\ pct' = p
  /\ nCalls' = nCalls + 1
  /\ firstRet' = IF nCalls = 0 /\ name = "advance" THEN r ELSE firstRet
  /\ unitSteps' = (unitSteps /\ unit)
  /\ wasComplete' = is_complete(cursor, duration)
  /\ pct_50_or_over' = (pct_50_or_over \/ (tween = "Lambda" /\ Lambda_flag(p)))

\* a curve evaluated directly at a time of its range
Run(t) ==
  /\ driver = "Curve" /\ wrappers = << >> /\ ~panicked
  /\ nCalls < MaxCalls
  /\ Called("run", t, Tween_run(tween, initial_value, final_value, duration, t),
            percent(duration, t), t = nCalls + 1)
  /\ inc' = Tween_tween(tween, value_delta, percent(duration, t))
  /\ cursor' = t
  /\ UNCHANGED << config, wrappers, accumulated, rising, panicked, elapsed >>

\* Tweener::move_to / run: the absolute driver
MoveTo(t) ==
  /\ driver = "Tweener" /\ ~panicked
  /\ nCalls < MaxCalls
  /\ LET c == Tweener_cursor(tween, wrappers, duration, t)
     IN  /\ cursor' = c
         /\ Called("move_to", t,
                   Tweener_value(tween, wrappers, initial_value, final_value, duration, t),
                   percent(duration, c), t = nCalls + 1)
  /\ UNCHANGED << config, wrappers, accumulated, rising, panicked, inc, elapsed >>

\* Tweener::move_by: the delta driver
MoveBy(d) ==
  /\ driver = "DeltaTweener" /\ ~panicked
  /\ nCalls < MaxMoves
  /\ LET a == DeltaTweener_accumulate(accumulated, d)
         c == Tweener_cursor(tween, wrappers, duration, a)
     IN  /\ accumulated' = a
         /\ cursor' = c
         /\ Called("move_by", a,
                   Tweener_value(tween, wrappers, initial_value, final_value, duration, a),
                   percent(duration, c), d = 1)
  /\ elapsed' = elapsed + d
  /\ UNCHANGED << config, wrappers, rising, panicked, inc >>

\* Tween::into_loop on a tween not yet driven
IntoLoop ==
  /\ driver = "Curve" /\ ~panicked /\ nCalls = 0
  /\ Len(wrappers) < 2
  /\ LET made == into_loop(tween, wrappers)
     IN  /\ panicked' = made.panic
         /\ wrappers' = made.ws
  /\ op' = "into_loop"
  /\ UNCHANGED << config, cursor, accumulated, rising, pct_50_or_over, ret, inc, pct,
                  arg, nCalls, elapsed, firstRet, unitSteps, wasComplete >>

\* Tween::into_oscillator on a tween not yet driven
IntoOscillator ==
  /\ driver = "Curve" /\ ~panicked /\ nCalls = 0
  /\ Len(wrappers) < 2
  /\ LET made == into_oscillator(tween, wrappers)
     IN  /\ panicked' = made.panic
         /\ wrappers' = made.ws
  /\ op' = "into_oscillator"
  /\ UNCHANGED << config, cursor, accumulated, rising, pct_50_or_over, ret, inc, pct,
                  arg, nCalls, elapsed, firstRet, unitSteps, wasComplete >>

\* an advance of the looping wrapper by a delta
LooperAdvance(d) ==
  /\ driver = "Curve" /\ ~panicked
  /\ wrappers # << >> /\ Head(wrappers) = "Looper"
  /\ nCalls < MaxMoves
  /\ IF duration = 0
     THEN /\ panicked' = TRUE
          /\ op' = "advance"
          /\ UNCHANGED << cursor, pct_50_or_over, ret, pct, arg, nCalls, elapsed,
                          firstRet, unitSteps, wasComplete >>
     ELSE LET c == Looper_wrap(cursor + d, duration)
          IN  /\ cursor' = c
              /\ Called("advance", c,
                        initial_value + Tween_tween(tween, value_delta, percent(duration, c)),
                        percent(duration, c), d = 1)
              /\ elapsed' = elapsed + d
              /\ UNCHANGED panicked
  /\ UNCHANGED << config, wrappers, accumulated, rising, inc >>

\* an advance of the oscillating wrapper by a delta
OscillatorAdvance(d) ==
  /\ driver = "Curve" /\ ~panicked
  /\ wrappers # << >> /\ Head(wrappers) = "Oscillator"
  /\ nCalls < MaxMoves
  /\ IF duration = 0
     THEN /\ panicked' = TRUE
          /\ op' = "advance"
          /\ UNCHANGED << cursor, rising, pct_50_or_over, ret, pct, arg, nCalls,
                          elapsed, firstRet, unitSteps, wasComplete >>
     ELSE LET c == Looper_wrap(cursor + d, duration)
              up == Oscillator_direction(rising, Oscillator_cycles(cursor + d, duration))
              t == Oscillator_time(up, c, duration)
          IN  /\ cursor' = c
              /\ rising' = up
              /\ Called("advance", c,
                        initial_value + Tween_tween(tween, value_delta, percent(duration, t)),
                        percent(duration, t), d = 1)
              /\ elapsed' = elapsed + d
              /\ UNCHANGED panicked
  /\ UNCHANGED << config, wrappers, accumulated, inc >>

Next ==
  \/ \E t \in 0 .. duration : Run(t)
  \/ \E t \in -1 .. MaxTime : MoveTo(t)
  \/ \E d \in -1 .. MaxDelta : MoveBy(d)
  \/ IntoLoop
  \/ IntoOscillator
  \/ \E d \in 0 .. MaxDelta : LooperAdvance(d)
  \/ \E d \in 0 .. MaxDelta : OscillatorAdvance(d)

Spec == Init /\ [][Next]_vars

SpecZero == InitZero /\ [][Next]_vars

(* ------------------------------- claims ------------------------------- *)

\* C1: a delta driver over a finite tween returns the initial value plus the
\* tween's own output for every move_by that leaves the accumulated time in
\* [0, duration], the landing exactly on the duration included (the closure
\* tween then returns initial + 100, Linear the truncated linear value); the
\* call that takes the accumulated time past the duration returns exactly the
\* final value, and is_finished() is true after it.
C1_ClampPastDuration ==
  (driver = "DeltaTweener" /\ op = "move_by" /\ accumulated >= 0) =>
    /\ accumulated <= duration =>
         /\ ret = initial_value
                    + Tween_tween(tween, value_delta, percent(duration, accumulated))
         /\ tween = "Lambda" => ret = initial_value + LambdaValue
         /\ tween = "Linear" =>
              ret = initial_value + TruncDiv(value_delta * accumulated, duration)
         /\ is_finished <=> accumulated = duration
    /\ accumulated > duration => (ret = final_value /\ is_finished)

\* C1 witness: lambda_test, the fifth move_by(1) over a duration of 4
C1_Witness ==
  /\ driver = "DeltaTweener" /\ tween = "Lambda"
  /\ initial_value = 0 /\ final_value = 1 /\ duration = 4
  /\ unitSteps /\ nCalls = 5 /\ accumulated = 5
  /\ ret = 1 /\ is_finished /\ pct_50_or_over

C3_Original ==
  (driver = "Tweener" /\ op = "move_to" /\ wasComplete /\ arg = duration) =>
    (ret = final_value /\ is_finished)

\* C3 amended: once the cursor of a finite absolute driver has reached the
\* duration, every further advance(duration) returns the initial value plus
\* the tween's output at percent 1, which is the final value for Linear and
\* the elastic curves (the closure tween returns initial + 100), and
\* is_finished() remains true.
C3_IdempotentCompletion ==
  (driver = "Tweener" /\ op = "move_to" /\ wasComplete /\ arg = duration) =>
    /\ ret = initial_value + Tween_tween(tween, value_delta, percent(duration, duration))
    /\ tween # "Lambda" => ret = final_value
    /\ tween = "Lambda" => ret = initial_value + LambdaValue
    /\ is_finished

\* C3 witness: a third advance(duration) in a row over Linear
C3_Witness ==
  /\ driver = "Tweener" /\ op = "move_to" /\ tween = "Linear"
  /\ initial_value = 0 /\ final_value = 100 /\ duration = 4
  /\ wasComplete /\ arg = 4 /\ nCalls >= 3 /\ ret = 100 /\ is_finished

C6_Oscillation ==
  (wrappers # << >> /\ Head(wrappers) = "Oscillator" /\ op = "advance") =>
    LET cycle == (elapsed \div duration) + 1
        e == elapsed % duration
        at == IF cycle % 2 = 1 THEN e ELSE duration - e
    IN  /\ ~is_finished
        /\ rising <=> (cycle % 2 = 1)
        /\ cursor = e
        /\ ret = initial_value + Tween_tween(tween, value_delta, percent(duration, at))
        /\ tween = "Linear" => ret = initial_value + TruncDiv(value_delta * at, duration)

\* C6 witness: Linear over 0 .. 100 with duration 4, three advances by 3:
\* the ninth unit of time is the first of the third cycle, which rises again
C6_Witness ==
  /\ wrappers = << "Oscillator" >> /\ op = "advance" /\ tween = "Linear"
  /\ initial_value = 0 /\ final_value = 100 /\ duration = 4
  /\ nCalls = 3 /\ elapsed = 9 /\ cursor = 1 /\ rising /\ ret = 25

C8_LinearProgression ==
  (driver = "Tweener" /\ tween = "Linear" /\ duration = 10 /\ op = "move_to"
     /\ arg \in 1 .. 10) =>
    /\ ret = initial_value + TruncDiv(value_delta * arg, 10)
    /\ (initial_value = 0 /\ final_value = 100) => ret = 10 * arg
    /\ (initial_value = 100 /\ final_value = 0) => ret = 100 - 10 * arg

\* C8 witness: linear_over_frames, the tenth of the calls run(1) .. run(10)
C8_Witness ==
  /\ driver = "Tweener" /\ tween = "Linear" /\ duration = 10 /\ op = "move_to"
  /\ initial_value = 0 /\ final_value = 100
  /\ unitSteps /\ nCalls = 10 /\ arg = 10 /\ ret = 100

\* C9: a curve built with a zero duration is either rejected at construction
\* (no call is ever made on it) or every percent computed for it is 1.0; no
\* call computes a percent by a division by zero.
C9_ZeroDurationPolicy ==
  (duration = 0 /\ nCalls > 0 /\ ~panicked) => (IsDefined(pct) /\ IsOne(pct))

=============================================================================
